---- MODULE Spec2Model ----
(***************************************************************************)
(* A model of syntaxrules/syntaxtree.py: the SyntaxTree class, which keeps *)
(* the dependency tree of one sentence as RDF triples on a SOH (SPARQL     *)
(* over HTTP) server and rewrites it with lexicon entries and rules.       *)
(*                                                                         *)
(* Strings are sequences of characters (one-character strings), so that    *)
(* lower(), startswith(), endswith(), replace() and "+" are computed.  The *)
(* base URI and the rdf:type URI are each one indivisible character of     *)
(* that alphabet.                                                          *)
(***************************************************************************)
EXTENDS Integers, Sequences, FiniteSets, TLC

VARIABLES
    store,   \* the facts the SOH server holds for the sentence
    last,    \* the last operation: its name, arguments, requests and result
    prev,    \* the call before the last, when both are apply_rule of one rule
    arg      \* the drawn inputs of the pure functions (get_triples, matching)

vars == <<store, last, prev, arg>>

(***************************************************************************)
(* Bounds of the model.                                                    *)
(***************************************************************************)
MaxLex == 2       \* entries of a lexicon
MaxRules == 2     \* rules of a ruleset
MaxFacts == 3     \* facts of a store handed to get_triples
MaxLen == 2       \* characters of a lemma in the lemma test
MaxDeps == 2      \* dependencies of a SAF article

(***************************************************************************)
(* Strings.                                                                *)
(***************************************************************************)
BASE == "http://example.com/jitp/"
RDF_TYPE == <<"http://www.w3.org/1999/02/22-rdf-syntax-ns#type">>

Range(f) == {f[i] : i \in DOMAIN f}

\* unicode.lower(), on the characters of the model's alphabet
LowerChar(c) ==
    CASE c = "R" -> "r"
      [] c = "U" -> "u"
      [] c = "A" -> "a"
      [] c = "V" -> "v"
      [] c = "N" -> "n"
      [] OTHER -> c

Lower(s) == [i \in DOMAIN s |-> LowerChar(s[i])]

StartsWith(s, prefix) ==
    /\ Len(prefix) <= Len(s)
    /\ SubSeq(s, 1, Len(prefix)) = prefix

EndsWith(s, suffix) ==
    /\ Len(suffix) <= Len(s)
    /\ SubSeq(s, Len(s) - Len(suffix) + 1, Len(s)) = suffix

\* s[:-1]
DropLast(s) == SubSeq(s, 1, Len(s) - 1)

\* s.replace(old, new) for a one-character old
RECURSIVE Replace(_, _, _)
Replace(s, old, new) ==
    IF s = <<>> THEN <<>>
    ELSE (IF Head(s) = old THEN new ELSE <<Head(s)>>) \o Replace(Tail(s), old, new)

\* Namespace.__getitem__: NS_BASE[name]
NS_BASE(name) == <<BASE>> \o name

(***************************************************************************)
(* RDF terms and triples.  A triple is <<subject, predicate, object>>; the *)
(* subject and the predicate are URI strings, the object is a URI or a     *)
(* Literal.                                                                *)
(***************************************************************************)
URIRef(u) == [lit |-> FALSE, v |-> u]
Literal(s) == [lit |-> TRUE, v |-> s]
IsLiteral(o) == o.lit

S_rel == <<"r", "e", "l">>
S_rel_su == <<"r", "e", "l", "_", "s", "u">>
S_su == <<"s", "u">>
S_lemma == <<"l", "e", "m", "m", "a">>
S_pos == <<"p", "o", "s">>
S_lexclass == <<"l", "e", "x", "c", "l", "a", "s", "s">>
S_id == <<"i", "d">>
S_uri == <<"u", "r", "i">>

T1 == NS_BASE(<<"t", "1">>)
T2 == NS_BASE(<<"t", "2">>)

Perms(S) ==
    LET RECURSIVE P(_)
        P(R) == IF R = {} THEN {<<>>}
                ELSE UNION {{<<x>> \o p : p \in P(R \ {x})} : x \in R}
    IN P(S)

SeqsUpTo(S, n) == UNION {[1..k -> S] : k \in 0..n}

(***************************************************************************)
(* The SOH server (syntaxrules/soh.py, SOHServer).  Its three requests:    *)
(* add_triples (bulk load, clearing first when clear is set), get_triples  *)
(* (all facts) and update (DELETE/INSERT/WHERE, one transaction).          *)
(*                                                                         *)
(* A condition or a template is the parsed text of the clause: a sequence  *)
(* of triple patterns whose terms are variables (?a), prefixed names       *)
(* (:rel) and literals ("x").                                              *)
(***************************************************************************)
Var(n) == [t |-> "var", n |-> n]
PName(s) == [t |-> "pname", n |-> s]
Lit(s) == [t |-> "lit", n |-> s]

\* The text of the prefixed name :local
Colon(local) == <<":">> \o local

\* self.soh.prefixes[""] = BASE
SOH_prefixes == ("" :> BASE)

TermsOf(clause) == UNION {Range(clause[i]) : i \in DOMAIN clause}
VarsOf(clause) == {x.n : x \in {y \in TermsOf(clause) : y.t = "var"}}

\* A prefixed name the server can expand: the empty prefix, then the local name
Expandable(x) == x.t = "pname" => (x.n # <<>> /\ Head(x.n) = ":")

Resolve(x) ==
    IF x.t = "lit" THEN Literal(x.n)
    ELSE URIRef(<<SOH_prefixes[""]>> \o Tail(x.n))

\* The bindings that extend b and make term x equal to value v
MatchTerm(x, v, b) ==
    IF x.t = "var"
    THEN IF x.n \in DOMAIN b
         THEN (IF b[x.n] = v THEN {b} ELSE {})
         ELSE {b @@ (x.n :> v)}
    ELSE IF Resolve(x) = v THEN {b} ELSE {}

MatchTriple(pat, triple, b) ==
    UNION {UNION {MatchTerm(pat[3], triple[3], b2) :
                    b2 \in MatchTerm(pat[2], URIRef(triple[2]), b1)} :
             b1 \in MatchTerm(pat[1], URIRef(triple[1]), b)}

\* The solutions of a conjunctive pattern over the facts st
RECURSIVE Solve(_, _, _)
Solve(pats, st, B) ==
    IF pats = <<>> THEN B
    ELSE Solve(Tail(pats), st,
               UNION {MatchTriple(Head(pats), tr, b) : tr \in st, b \in B})

Solutions(where, st) == Solve(where, st, {<<>>})

TermValue(x, b) == IF x.t = "var" THEN b[x.n] ELSE Resolve(x)

InstTriple(pat, b) ==
    <<TermValue(pat[1], b), TermValue(pat[2], b), TermValue(pat[3], b)>>

\* The triples a template yields under the solutions B; a triple with a
\* literal as subject or predicate is no triple and is left out
Instantiate(template, B) ==
    {<<q[1].v, q[2].v, q[3]>> :
        q \in {r \in {InstTriple(template[i], b) : i \in DOMAIN template, b \in B} :
                 ~r[1].lit /\ ~r[2].lit}}

\* The request is rejected when a template names a variable the condition
\* does not bind or when a prefixed name cannot be expanded
UpdateAccepted(where, insert, delete) ==
    /\ VarsOf(insert) \cup VarsOf(delete) \subseteq VarsOf(where)
    /\ \A x \in TermsOf(where) \cup TermsOf(insert) \cup TermsOf(delete) : Expandable(x)

\* SOHServer.update(where, insert, delete): one transaction
SOH_update(st, where, insert, delete) ==
    IF ~UpdateAccepted(where, insert, delete)
    THEN [store |-> st, ok |-> FALSE]
    ELSE LET B == Solutions(where, st)
         IN [store |-> (st \ Instantiate(delete, B)) \cup Instantiate(insert, B),
             ok |-> TRUE]

\* SOHServer.add_triples(g, clear)
SOH_add_triples(st, g, clear) == IF clear THEN g ELSE st \cup g

\* SOHServer.get_triples(): the facts, in some order
SOH_get_triples(st) == Perms(st)

(***************************************************************************)
(* The requests an operation sends, in order, each with the facts the      *)
(* server holds once it is served: what another reader of the server can   *)
(* observe while the operation runs.                                       *)
(***************************************************************************)
UpdateRequest(where, insert, delete, res) ==
    [call |-> "update", where |-> where, insert |-> insert, delete |-> delete,
     ok |-> res.ok, post |-> res.store]

AddRequest(g, clear, post) ==
    [call |-> "add_triples", graph |-> g, clear |-> clear, ok |-> TRUE, post |-> post]

GetRequest(st) == [call |-> "get_triples", ok |-> TRUE, post |-> st]

\* What an operation leaves: the facts, the requests it sent, the exception
Outcome(st, log, err) == [store |-> st, log |-> log, err |-> err]

(***************************************************************************)
(* SyntaxTree.load_sentence                                                *)
(***************************************************************************)
\* for triple in rdf_triples: g.add(triple)
RECURSIVE GraphOf(_, _)
GraphOf(g, triples) ==
    IF triples = <<>> THEN g
    ELSE GraphOf(g \cup {Head(triples)}, Tail(triples))

\* The triples added to the facts of the server, which are not cleared
load_sentence_merging(st, rdf_triples) ==
    LET g == GraphOf({}, rdf_triples)
        post == SOH_add_triples(st, g, FALSE)
    IN Outcome(post, <<AddRequest(g, FALSE, post)>>, "none")

load_sentence(st, rdf_triples) ==
    LET g == GraphOf({}, rdf_triples)
        post == SOH_add_triples(st, g, TRUE)
    IN Outcome(post, <<AddRequest(g, TRUE, post)>>, "none")

(***************************************************************************)
(* SyntaxTree.apply_rule                                                   *)
(***************************************************************************)
\* A rule.get that falls back on the condition instead of ''
RuleGetCondition(rule, key) == IF key \in DOMAIN rule THEN rule[key] ELSE rule.condition

\* dict.get(key, '')
RuleGet(rule, key) == IF key \in DOMAIN rule THEN rule[key] ELSE <<>>

\* The delete and the insert sent as two requests
apply_rule_in_two_requests(st, rule) ==
    LET d == SOH_update(st, rule.condition, <<>>, RuleGet(rule, "delete"))
        i == SOH_update(d.store, rule.condition, RuleGet(rule, "insert"), <<>>)
    IN Outcome(i.store,
               <<UpdateRequest(rule.condition, <<>>, RuleGet(rule, "delete"), d),
                 UpdateRequest(rule.condition, RuleGet(rule, "insert"), <<>>, i)>>,
               IF d.ok /\ i.ok THEN "none" ELSE "UpdateError")

\* The condition left out of the request
apply_rule_unconditional(st, rule) ==
    LET res == SOH_update(st, <<>>, RuleGet(rule, "insert"), RuleGet(rule, "delete"))
    IN Outcome(res.store,
               <<UpdateRequest(<<>>, RuleGet(rule, "insert"), RuleGet(rule, "delete"), res)>>,
               IF res.ok THEN "none" ELSE "UpdateError")

\* The insert and the delete clauses taken for each other
apply_rule_swapped(st, rule) ==
    LET res == SOH_update(st, rule.condition, RuleGet(rule, "delete"),
                          RuleGet(rule, "insert"))
    IN Outcome(res.store,
               <<UpdateRequest(rule.condition, RuleGet(rule, "delete"),
                               RuleGet(rule, "insert"), res)>>,
               IF res.ok THEN "none" ELSE "UpdateError")

apply_rule(st, rule) ==
    LET res == SOH_update(st, rule.condition, RuleGet(rule, "insert"),
                          RuleGet(rule, "delete"))
    IN Outcome(res.store,
               <<UpdateRequest(rule.condition, RuleGet(rule, "insert"),
                               RuleGet(rule, "delete"), res)>>,
               IF res.ok THEN "none" ELSE "UpdateError")

(***************************************************************************)
(* SyntaxTree.get_tokens                                                   *)
(***************************************************************************)
\* d[k] = v on a dict
SetKey(d, k, v) == IF k \in DOMAIN d THEN [d EXCEPT ![k] = v] ELSE d @@ (k :> v)

\* tokens[s][name] = value, tokens being a defaultdict(dict)
SetAttr(tokens, s, name, value) ==
    SetKey(tokens, s, SetKey(IF s \in DOMAIN tokens THEN tokens[s] ELSE <<>>,
                             name, value))

\* for s, p, o in triples: if isinstance(o, Literal): tokens[s][...] = unicode(o)
RECURSIVE TokensOf(_, _)
TokensOf(tokens, triples) ==
    IF triples = <<>> THEN tokens
    ELSE LET tr == Head(triples)
         IN TokensOf(IF IsLiteral(tr[3])
                     THEN SetAttr(tokens, tr[1], Replace(tr[2], BASE, <<>>), tr[3].v)
                     ELSE tokens,
                     Tail(triples))

get_tokens(triples) == TokensOf(<<>>, triples)

(***************************************************************************)
(* SyntaxTree.apply_lexicon                                                *)
(*                                                                         *)
(* A lexicon entry is a dict with lexclass, lemma and optionally pos; its  *)
(* lemma is a string or a list of strings.                                 *)
(***************************************************************************)
\* The value of lex['lemma']: a list of strings, or one string (held as items[1])
LemmaStr(s) == [list |-> FALSE, items |-> <<s>>]
LemmaList(l) == [list |-> TRUE, items |-> l]

\* target == lemma or (target.endswith("*") and lemma.startswith(target[:-1]))
TargetMatches(target, lemma) ==
    \/ target = lemma
    \/ /\ EndsWith(target, <<"*">>)
       /\ StartsWith(lemma, DropLast(target))

\* lemma = token['lemma'].lower(), then the test of lines 149-150
LexiconMatches(target, lemma) == TargetMatches(target, Lower(lemma))

\* '{uri} :lexclass "{lexclass}"'
LexInsert(uri, lexclass) ==
    <<<<PName(uri), PName(Colon(S_lexclass)), Lit(lexclass)>>>>

\* self.soh.update(insert=insert), appended to what the call did so far
SendUpdate(out, where, insert, delete) ==
    LET res == SOH_update(out.store, where, insert, delete)
    IN Outcome(res.store,
               Append(out.log, UpdateRequest(where, insert, delete, res)),
               IF res.ok THEN "none" ELSE "UpdateError")

\* for target in lemmata: ...
RECURSIVE LexTargets(_, _, _, _, _)
LexTargets(out, uri, lemma, lexclass, lemmata) ==
    IF lemmata = <<>> \/ out.err # "none" THEN out
    ELSE LexTargets(IF TargetMatches(Head(lemmata), lemma)
                    THEN SendUpdate(out, <<>>, LexInsert(uri, lexclass), <<>>)
                    ELSE out,
                    uri, lemma, lexclass, Tail(lemmata))

\* The loop over the lexicon left at the first entry that matches
RECURSIVE LexEntriesLoopFirstWins(_, _, _, _, _)
LexEntriesLoopFirstWins(out, uri, pos, lemma, lexicon) ==
    IF lexicon = <<>> \/ out.err # "none" THEN out
    ELSE LET lex == Head(lexicon)
             next == IF "pos" \in DOMAIN lex /\ lex.pos # pos THEN out
                     ELSE LexTargets(out, uri, lemma, lex.lexclass,
                                     IF lex.lemma.list THEN lex.lemma.items
                                     ELSE <<lex.lemma.items[1]>>)
         IN IF next # out THEN next
            ELSE LexEntriesLoopFirstWins(next, uri, pos, lemma, Tail(lexicon))

\* for lex in lexicon: ...
RECURSIVE LexEntriesLoop(_, _, _, _, _)
LexEntriesLoop(out, uri, pos, lemma, lexicon) ==
    IF lexicon = <<>> \/ out.err # "none" THEN out
    ELSE LET lex == Head(lexicon)
         IN LexEntriesLoop(
                IF "pos" \in DOMAIN lex /\ lex.pos # pos THEN out
                ELSE LexTargets(out, uri, lemma, lex.lexclass,
                                IF lex.lemma.list THEN lex.lemma.items
                                ELSE <<lex.lemma.items[1]>>),
                uri, pos, lemma, Tail(lexicon))

\* The loop over the tokens passing over a token without pos or lemma
RECURSIVE LexTokensSkipping(_, _, _, _)
LexTokensSkipping(out, tokens, keys, lexicon) ==
    IF keys = <<>> \/ out.err # "none" THEN out
    ELSE LET token == tokens[Head(keys)]
             uri == Replace(Head(keys), BASE, <<":">>)
         IN LexTokensSkipping(
                IF S_pos \notin DOMAIN token \/ S_lemma \notin DOMAIN token THEN out
                ELSE LexEntriesLoop(out, uri, token[S_pos], Lower(token[S_lemma]), lexicon),
                tokens, Tail(keys), lexicon)

\* for uri, token in tokens.iteritems(): ...  (keys: the dict's iteration order)
RECURSIVE LexTokens(_, _, _, _)
LexTokens(out, tokens, keys, lexicon) ==
    IF keys = <<>> \/ out.err # "none" THEN out
    ELSE LET token == tokens[Head(keys)]
             uri == Replace(Head(keys), BASE, <<":">>)
         IN IF S_pos \notin DOMAIN token \/ S_lemma \notin DOMAIN token
            THEN Outcome(out.store, out.log, "KeyError")
            ELSE LexTokens(LexEntriesLoop(out, uri, token[S_pos],
                                          Lower(token[S_lemma]), lexicon),
                           tokens, Tail(keys), lexicon)

\* triples: the order in which the server returned the facts
apply_lexicon(st, lexicon, triples, keys) ==
    LexTokens(Outcome(st, <<GetRequest(st)>>, "none"), get_tokens(triples), keys, lexicon)

(***************************************************************************)
(* SyntaxTree.apply_ruleset                                                *)
(***************************************************************************)
\* The rules taken from the last to the first
RECURSIVE RulesLoopReversed(_, _)
RulesLoopReversed(out, rules) ==
    IF rules = <<>> \/ out.err # "none" THEN out
    ELSE LET r == apply_rule(out.store, rules[Len(rules)])
         IN RulesLoopReversed(Outcome(r.store, out.log \o r.log, r.err),
                              SubSeq(rules, 1, Len(rules) - 1))

\* for rule in ruleset['rules']: self.apply_rule(rule)
RECURSIVE RulesLoop(_, _)
RulesLoop(out, rules) ==
    IF rules = <<>> \/ out.err # "none" THEN out
    ELSE LET r == apply_rule(out.store, Head(rules))
         IN RulesLoop(Outcome(r.store, out.log \o r.log, r.err), Tail(rules))

apply_ruleset(st, ruleset, triples, keys) ==
    RulesLoop(apply_lexicon(st, ruleset.lexicon, triples, keys), ruleset.rules)

(***************************************************************************)
(* SyntaxTree.get_triples                                                  *)
(*                                                                         *)
(* A Node is the dict of its attributes.  nodes maps a URI to its Node, so *)
(* an edge that names its endpoints by URI shares the Node objects, as the *)
(* Triple tuples of the code do.  filter_predicate is None, a string or a  *)
(* list of strings.                                                        *)
(***************************************************************************)
FilterNone == [kind |-> "none", items |-> <<>>]
FilterStr(s) == [kind |-> "str", items |-> <<s>>]
FilterList(l) == [kind |-> "list", items |-> l]

\* if isinstance(filter_predicate, (str, unicode)): filter_predicate = [filter_predicate]
FilterItems(filter_predicate) ==
    IF filter_predicate.kind = "str" THEN <<filter_predicate.items[1]>>
    ELSE filter_predicate.items

\* Node(uri=s)
Node(uri) == (S_uri :> uri)

\* nodes.setdefault(uri, Node(uri=uri))
SetDefault(nodes, uri) == IF uri \in DOMAIN nodes THEN nodes ELSE nodes @@ (uri :> Node(uri))

\* The test without its last line: rdf:type relations are kept
ExcludedButType(pred, ignore_rel, items, ignore_grammatical) ==
    \/ ignore_rel /\ pred = S_rel
    \/ ignore_grammatical /\ StartsWith(pred, <<"r", "e", "l", "_">>)
    \/ items # <<>> /\ pred \notin Range(items)

\* The test of lines 94-97: the relation is left out of the result
Excluded(pred, ignore_rel, items, ignore_grammatical) ==
    \/ ignore_rel /\ pred = S_rel
    \/ ignore_grammatical /\ StartsWith(pred, <<"r", "e", "l", "_">>)
    \/ items # <<>> /\ pred \notin Range(items)
    \/ pred = RDF_TYPE

\* The body of the loop over the server's triples; v holds nodes and result
ViewStep(v, tr, ignore_rel, items, ignore_grammatical) ==
    LET s == tr[1]
        nodes1 == SetDefault(v.nodes, s)
        child == nodes1[s]
        pred == Replace(tr[2], BASE, <<>>)
    IN IF IsLiteral(tr[3])
       THEN LET o == IF pred \in DOMAIN child
                     THEN child[pred] \o <<";", " ">> \o tr[3].v
                     ELSE tr[3].v
            IN [nodes |-> [nodes1 EXCEPT ![s] = SetKey(child, pred, o)],
                result |-> v.result]
       ELSE IF ~Excluded(pred, ignore_rel, items, ignore_grammatical)
            THEN [nodes |-> SetDefault(nodes1, tr[3].v),
                  result |-> Append(v.result, <<s, pred, tr[3].v>>)]
            ELSE [nodes |-> nodes1, result |-> v.result]

RECURSIVE ViewLoop(_, _, _, _, _)
ViewLoop(v, triples, ignore_rel, items, ignore_grammatical) ==
    IF triples = <<>> THEN v
    ELSE ViewLoop(ViewStep(v, Head(triples), ignore_rel, items, ignore_grammatical),
                  Tail(triples), ignore_rel, items, ignore_grammatical)

\* triples: the facts in the order the server returned them.  The value is
\* the returned list (edges), the nodes built, and the exception if any.
get_triples(triples, ignore_rel, filter_predicate, ignore_grammatical, minimal) ==
    LET v == ViewLoop([nodes |-> <<>>, result |-> <<>>], triples, ignore_rel,
                      FilterItems(filter_predicate), ignore_grammatical)
        full == [i \in DOMAIN v.result |->
                    [subject |-> v.nodes[v.result[i][1]],
                     predicate |-> v.result[i][2],
                     object |-> v.nodes[v.result[i][3]]]]
        hasId(i) == /\ S_id \in DOMAIN full[i].subject
                    /\ S_id \in DOMAIN full[i].object
    IN IF ~minimal
       THEN [edges |-> full, nodes |-> v.nodes, err |-> "none"]
       ELSE IF \A i \in DOMAIN full : hasId(i)
            THEN [edges |-> [i \in DOMAIN full |->
                                [subject |-> full[i].subject[S_id],
                                 predicate |-> full[i].predicate,
                                 object |-> full[i].object[S_id]]],
                  nodes |-> v.nodes, err |-> "none"]
            ELSE [edges |-> <<>>, nodes |-> v.nodes, err |-> "AttributeError"]

(***************************************************************************)
(* The inputs of the model: sentences, rules, lexicon entries.             *)
(***************************************************************************)
F_lemma1 == <<T1, NS_BASE(S_lemma), Literal(<<"r", "u">>)>>
F_pos1 == <<T1, NS_BASE(S_pos), Literal(<<"V">>)>>
F_lemma2 == <<T2, NS_BASE(S_lemma), Literal(<<"R", "a">>)>>
F_pos2 == <<T2, NS_BASE(S_pos), Literal(<<"N">>)>>
F_su == <<T1, NS_BASE(S_rel_su), URIRef(T2)>>
F_us == <<T2, NS_BASE(S_rel_su), URIRef(T1)>>
F_rel == <<T1, NS_BASE(S_rel), URIRef(T2)>>

Sentences ==
    { <<>>,
      <<F_lemma1, F_pos1>>,
      <<F_lemma1, F_pos1, F_lemma1>>,
      <<F_lemma2>>,
      <<F_lemma1, F_pos1, F_lemma2>>,
      <<F_lemma1, F_pos1, F_lemma2, F_pos2>>,
      <<F_su>>,
      <<F_su, F_rel>>,
      <<F_su, F_rel, F_us>>,
      <<F_lemma1, F_pos1, F_su>> }

\* ?a :rel_su ?b  =>  insert ?a :su ?b, delete ?a :rel_su ?b
RuleRename ==
    [condition |-> <<<<Var(<<"a">>), PName(Colon(S_rel_su)), Var(<<"b">>)>>>>,
     insert |-> <<<<Var(<<"a">>), PName(Colon(S_su)), Var(<<"b">>)>>>>,
     delete |-> <<<<Var(<<"a">>), PName(Colon(S_rel_su)), Var(<<"b">>)>>>>]

\* ?a :rel_su ?b  =>  insert ?b :rel ?a
RuleInverse ==
    [condition |-> <<<<Var(<<"a">>), PName(Colon(S_rel_su)), Var(<<"b">>)>>>>,
     insert |-> <<<<Var(<<"b">>), PName(Colon(S_rel)), Var(<<"a">>)>>>>]

\* ?a :rel_su ?b . ?a :rel ?b  =>  delete ?a :rel ?b . ?b :rel ?a
RuleDrop ==
    [condition |-> <<<<Var(<<"a">>), PName(Colon(S_rel_su)), Var(<<"b">>)>>,
                     <<Var(<<"a">>), PName(Colon(S_rel)), Var(<<"b">>)>>>>,
     delete |-> <<<<Var(<<"a">>), PName(Colon(S_rel)), Var(<<"b">>)>>,
                  <<Var(<<"b">>), PName(Colon(S_rel)), Var(<<"a">>)>>>>]

\* ?a :lexclass "m"  =>  insert ?a :rel_su ?a
RuleMark ==
    [condition |-> <<<<Var(<<"a">>), PName(Colon(S_lexclass)), Lit(<<"m">>)>>>>,
     insert |-> <<<<Var(<<"a">>), PName(Colon(S_rel_su)), Var(<<"a">>)>>>>]

\* ?a :rel_su ?b . ?a :rel ?b  =>  insert :t2 :rel :t1
RuleGround ==
    [condition |-> <<<<Var(<<"a">>), PName(Colon(S_rel_su)), Var(<<"b">>)>>,
                     <<Var(<<"a">>), PName(Colon(S_rel)), Var(<<"b">>)>>>>,
     insert |-> <<<<PName(Colon(<<"t", "2">>)), PName(Colon(S_rel)),
                    PName(Colon(<<"t", "1">>))>>>>]

\* ?a :su ?b  =>  insert ?a :su ?c   (?c is bound nowhere)
RuleUnbound ==
    [condition |-> <<<<Var(<<"a">>), PName(Colon(S_su)), Var(<<"b">>)>>>>,
     insert |-> <<<<Var(<<"a">>), PName(Colon(S_su)), Var(<<"c">>)>>>>]

\* ?a :rel_su ?b  =>  insert ?a b:su ?b, delete ?a :rel_su ?b
\* (no prefix b is declared)
RuleBadPrefix ==
    [condition |-> <<<<Var(<<"a">>), PName(Colon(S_rel_su)), Var(<<"b">>)>>>>,
     insert |-> <<<<Var(<<"a">>), PName(<<"b">> \o Colon(S_su)), Var(<<"b">>)>>>>,
     delete |-> <<<<Var(<<"a">>), PName(Colon(S_rel_su)), Var(<<"b">>)>>>>]

Rules ==
    {RuleRename, RuleInverse, RuleDrop, RuleMark, RuleGround, RuleUnbound, RuleBadPrefix}

RulesetRules == {RuleMark, RuleRename, RuleUnbound}

LexMotion ==
    [lexclass |-> <<"m">>, lemma |-> LemmaList(<<<<"r", "u">>, <<"r", "*">>>>),
     pos |-> <<"V">>]
LexAny == [lexclass |-> <<"n">>, lemma |-> LemmaStr(<<"r", "*">>)]
LexRa == [lexclass |-> <<"m">>, lemma |-> LemmaList(<<<<"R", "a">>, <<"r", "a">>>>)]

LexEntries == {LexMotion, LexAny, LexRa}

Lexicons == SeqsUpTo(LexEntries, MaxLex)

Rulesets ==
    {[lexicon |-> l, rules |-> rs] :
        l \in {<<>>, <<LexMotion>>}, rs \in SeqsUpTo(RulesetRules, MaxRules)}

RECURSIVE SetToSeq(_)
SetToSeq(S) ==
    IF S = {} THEN <<>>
    ELSE LET x == CHOOSE y \in S : TRUE IN <<x>> \o SetToSeq(S \ {x})

\* The sets holding, for each (subject, predicate) of the literal facts L, one
\* of its facts
RECURSIVE Winners(_)
Winners(L) ==
    IF L = {} THEN {{}}
    ELSE LET x == CHOOSE y \in L : TRUE
             same == {y \in L : y[1] = x[1] /\ y[2] = x[2]}
         IN {W \cup {w} : W \in Winners(L \ same), w \in same}

\* get_tokens keeps, for each (subject, predicate), the literal the server
\* returned last.  Of the orders SOH_get_triples(st) can return, one for each
\* dict of tokens get_tokens can build: the facts kept, after all the others.
TokenOrders(st) ==
    {SetToSeq(st \ W) \o SetToSeq(W) : W \in Winners({x \in st : IsLiteral(x[3])})}

(***************************************************************************)
(* The state machine.                                                      *)
(***************************************************************************)
NoOp == [op |-> "none"]
NoArg == [fn |-> "none"]

Called(op, a, out) ==
    [op |-> op, arg |-> a, pre |-> store, log |-> out.log, err |-> out.err]

Init ==
    /\ store = {}
    /\ last = NoOp
    /\ prev = NoOp
    /\ arg = NoArg

Load ==
    \E rdf_triples \in Sentences :
        LET out == load_sentence(store, rdf_triples)
        IN /\ store' = out.store
           /\ last' = Called("load_sentence", rdf_triples, out)
           /\ prev' = NoOp
           /\ UNCHANGED arg

ApplyRule ==
    \E rule \in Rules :
        LET out == apply_rule(store, rule)
        IN /\ store' = out.store
           /\ last' = Called("apply_rule", rule, out)
           /\ prev' = (IF last.op = "apply_rule" /\ last.arg = rule THEN last ELSE NoOp)
           /\ UNCHANGED arg

ApplyLexicon ==
    \E triples \in TokenOrders(store) :
        \E keys \in Perms(DOMAIN get_tokens(triples)), lexicon \in Lexicons :
            LET out == apply_lexicon(store, lexicon, triples, keys)
            IN /\ store' = out.store
               /\ last' = Called("apply_lexicon",
                                 [lexicon |-> lexicon, triples |-> triples, keys |-> keys],
                                 out)
               /\ prev' = NoOp
               /\ UNCHANGED arg

ApplyRuleset ==
    \E triples \in TokenOrders(store) :
        \E keys \in Perms(DOMAIN get_tokens(triples)), ruleset \in Rulesets :
            LET out == apply_ruleset(store, ruleset, triples, keys)
            IN /\ store' = out.store
               /\ last' = Called("apply_ruleset",
                                 [ruleset |-> ruleset, triples |-> triples, keys |-> keys],
                                 out)
               /\ prev' = NoOp
               /\ UNCHANGED arg

\* Sentences are loaded and rewritten rule by rule
Next == Load \/ ApplyRule

Spec == Init /\ [][Next]_vars

\* Sentences are loaded and classified by lexicons
NextLexicon == Load \/ ApplyLexicon

SpecLexicon == Init /\ [][NextLexicon]_vars

\* Sentences are loaded and rewritten by rulesets (a lexicon, then rules)

NextRuleset == Load \/ ApplyRuleset

SpecRuleset == Init /\ [][NextRuleset]_vars

(***************************************************************************)
(* get_triples as a function of the facts the server returns and of its    *)
(* arguments: the server holds some sentence, the call is drawn, and the   *)
(* one action makes the call.                                              *)
(***************************************************************************)
V_lemma == <<T1, NS_BASE(S_lemma), Literal(<<"r", "u">>)>>
V_lemma_b == <<T1, NS_BASE(S_lemma), Literal(<<"r", "a">>)>>
V_id1 == <<T1, NS_BASE(S_id), Literal(<<"1">>)>>
V_id2 == <<T2, NS_BASE(S_id), Literal(<<"2">>)>>
V_uri == <<T1, NS_BASE(S_uri), Literal(<<"x">>)>>
V_rel == <<T1, NS_BASE(S_rel), URIRef(T2)>>
V_rel_su == <<T1, NS_BASE(S_rel_su), URIRef(T2)>>
V_su == <<T1, NS_BASE(S_su), URIRef(T2)>>
V_type == <<T1, RDF_TYPE, URIRef(T2)>>

ViewFacts == {V_lemma, V_lemma_b, V_id1, V_id2, V_uri, V_rel, V_rel_su, V_su, V_type}

Filters == {FilterNone, FilterList(<<>>), FilterStr(S_su), FilterList(<<S_rel, S_rel_su>>)}

\* The sequences of at most n different elements of S
Orders(S, n) == {o \in SeqsUpTo(S, n) : \A i, j \in DOMAIN o : o[i] = o[j] => i = j}

InitView ==
    /\ \E triples \in Orders(ViewFacts, MaxFacts), filter_predicate \in Filters,
          ignore_rel \in BOOLEAN, ignore_grammatical \in BOOLEAN, minimal \in BOOLEAN :
            /\ store = Range(triples)
            /\ arg = [fn |-> "get_triples", triples |-> triples,
                      ignore_rel |-> ignore_rel, filter_predicate |-> filter_predicate,
                      ignore_grammatical |-> ignore_grammatical, minimal |-> minimal]
    /\ last = NoOp
    /\ prev = NoOp

GetTriples ==
    /\ arg.fn = "get_triples"
    /\ LET r == get_triples(arg.triples, arg.ignore_rel, arg.filter_predicate,
                            arg.ignore_grammatical, arg.minimal)
       IN last' = [op |-> "get_triples", arg |-> arg, pre |-> store,
                   log |-> <<GetRequest(store)>>, err |-> r.err,
                   edges |-> r.edges, nodes |-> r.nodes]
    /\ UNCHANGED <<store, prev, arg>>

SpecView == InitView /\ [][GetTriples]_vars

(***************************************************************************)
(* The lemma test of apply_lexicon as a function of the token's lemma and  *)
(* of one lemma of a lexicon entry.                                        *)
(***************************************************************************)
LemmaChars == {"r", "u", "R"}
TargetChars == {"r", "u", "R", "*"}

InitMatch ==
    /\ \E target \in SeqsUpTo(TargetChars, MaxLen), lemma \in SeqsUpTo(LemmaChars, MaxLen) :
            arg = [fn |-> "match", target |-> target, lemma |-> lemma]
    /\ store = {}
    /\ last = NoOp
    /\ prev = NoOp

Match ==
    /\ arg.fn = "match"
    /\ last' = [op |-> "match", arg |-> arg,
                matched |-> LexiconMatches(arg.target, arg.lemma)]
    /\ UNCHANGED <<store, prev, arg>>

SpecMatch == InitMatch /\ [][Match]_vars

(***************************************************************************)
(* _saf_to_rdf and SyntaxTree.load_saf                                     *)
(*                                                                         *)
(* A SAF article is a dict with tokens and dependencies.  A token is the   *)
(* sequence of its (key, value) pairs in the order iteritems() gives them; *)
(* a dependency is a record of child, parent and relation.  The values are *)
(* strings, as int() and unicode() read them.                              *)
(***************************************************************************)
\* int(c) for one digit
DigitVal(c) ==
    CASE c = "0" -> 0 [] c = "1" -> 1 [] c = "2" -> 2 [] c = "3" -> 3 [] OTHER -> 9

\* int(s) for a string of digits
RECURSIVE IntOf(_)
IntOf(s) == IF s = <<>> THEN 0 ELSE 10 * IntOf(DropLast(s)) + DigitVal(s[Len(s)])

\* unidecode(unicode(v)): the ASCII transliteration
UnidecodeChar(c) == IF c = "é" THEN "e" ELSE IF c = "ü" THEN "u" ELSE c
Unidecode(s) == [i \in DOMAIN s |-> UnidecodeChar(s[i])]

\* token[key]
TokenGet(token, key) == token[CHOOSE i \in DOMAIN token : token[i][1] = key][2]

\* "t_{id}_{lemma}" under NS_BASE, the lemma transliterated
token_uri(token) ==
    NS_BASE(<<"t", "_">> \o TokenGet(token, S_id) \o <<"_">>
            \o Unidecode(TokenGet(token, S_lemma)))

\* "rel_{rel}" under NS_BASE
rel_uri(dependency) == NS_BASE(<<"r", "e", "l", "_">> \o dependency.relation)

\* for k, v in token.iteritems(): yield uri, NS_BASE[k], Literal(unidecode(unicode(v)))
TokenFacts(uri, token) ==
    [i \in DOMAIN token |-> <<uri, NS_BASE(token[i][1]), Literal(Unidecode(token[i][2]))>>]

\* The first loop: gen holds the triples yielded so far and the dict tokens
RECURSIVE SafTokens(_, _, _)
SafTokens(gen, toks, sentence_id) ==
    IF toks = <<>> THEN gen
    ELSE LET token == Head(toks)
             uri == token_uri(token)
         IN SafTokens(IF IntOf(TokenGet(token, <<"s", "e", "n", "t", "e", "n", "c", "e">>))
                           = sentence_id
                      THEN [yielded |-> gen.yielded \o TokenFacts(uri, token),
                            tokens |-> SetKey(gen.tokens, IntOf(TokenGet(token, S_id)), uri),
                            err |-> "none"]
                      ELSE gen,
                      Tail(toks), sentence_id)

\* The second loop; tokens[int(dep['parent'])] raises KeyError for a parent
\* that is no token of the sentence, which ends the generator
RECURSIVE SafDependencies(_, _)
SafDependencies(gen, deps) ==
    IF deps = <<>> \/ gen.err # "none" THEN gen
    ELSE LET dep == Head(deps)
         IN SafDependencies(
                IF IntOf(dep.child) \notin DOMAIN gen.tokens THEN gen
                ELSE IF IntOf(dep.parent) \notin DOMAIN gen.tokens
                     THEN [gen EXCEPT !.err = "KeyError"]
                     ELSE LET child == gen.tokens[IntOf(dep.child)]
                              parent == gen.tokens[IntOf(dep.parent)]
                          IN [gen EXCEPT !.yielded =
                                @ \o <<<<child, rel_uri(dep), URIRef(parent)>>,
                                       <<child, NS_BASE(S_rel), URIRef(parent)>>>>],
                Tail(deps))

\* The triples the generator yields, and the exception that ends it if any
saf_to_rdf(saf_article, sentence_id) ==
    SafDependencies(SafTokens([yielded |-> <<>>, tokens |-> <<>>, err |-> "none"],
                              saf_article.tokens, sentence_id),
                    saf_article.dependencies)

\* The triples sent to the server as they are produced, those yielded before
\* an exception included
load_saf_streaming(st, saf_article, sentence_id) ==
    LET gen == saf_to_rdf(saf_article, sentence_id)
        g == GraphOf({}, gen.yielded)
    IN Outcome(g, <<AddRequest(g, TRUE, g)>>, gen.err)

\* load_sentence on a generator: the loop of lines 59-60 consumes it into the
\* local graph; an exception of the generator leaves the method before
\* add_triples is called
load_saf(st, saf_article, sentence_id) ==
    LET gen == saf_to_rdf(saf_article, sentence_id)
    IN IF gen.err # "none" THEN Outcome(st, <<>>, gen.err)
       ELSE load_sentence(st, gen.yielded)

(***************************************************************************)
(* Sentences loaded from SAF articles, one after the other.                *)
(***************************************************************************)
S_sentence == <<"s", "e", "n", "t", "e", "n", "c", "e">>

TokA == <<<<S_id, <<"1">>>>, <<S_sentence, <<"1">>>>, <<S_lemma, <<"r", "u">>>>>>
TokB == <<<<S_lemma, <<"é">>>>, <<S_id, <<"2">>>>, <<S_sentence, <<"1">>>>>>
TokC == <<<<S_id, <<"3">>>>, <<S_sentence, <<"2">>>>, <<S_lemma, <<"a">>>>>>

\* Within sentence 1; from sentence 1 to a token of sentence 2; from sentence
\* 2 to a token of sentence 1
DepAB == [child |-> <<"1">>, parent |-> <<"2">>, relation |-> S_su]
DepBC == [child |-> <<"2">>, parent |-> <<"3">>, relation |-> S_su]
DepCA == [child |-> <<"3">>, parent |-> <<"1">>, relation |-> <<"o">>]

Articles ==
    {[tokens |-> t, dependencies |-> d] :
        t \in {<<TokA, TokB, TokC>>, <<TokA, TokB>>, <<TokC, TokA>>},
        d \in SeqsUpTo({DepAB, DepBC, DepCA}, MaxDeps)}

SentenceIds == {1, 2}

LoadSaf ==
    \E saf_article \in Articles, sentence_id \in SentenceIds :
        LET out == load_saf(store, saf_article, sentence_id)
        IN /\ store' = out.store
           /\ last' = [op |-> "load_saf",
                       arg |-> [saf_article |-> saf_article, sentence_id |-> sentence_id],
                       pre |-> store, log |-> out.log, err |-> out.err,
                       yielded |-> saf_to_rdf(saf_article, sentence_id).yielded]
           /\ prev' = NoOp
           /\ UNCHANGED arg

SpecSaf == Init /\ [][LoadSaf]_vars

(***************************************************************************)
(* Properties of apply_rule, checked under Spec.                           *)
(***************************************************************************)
IsRuleCall == last.op = "apply_rule"
HasInsert(rule) == "insert" \in DOMAIN rule
HasDelete(rule) == "delete" \in DOMAIN rule

\* The triples the rule's insert (delete) clause stands for in the facts st
InsertContent(rule, st) == Instantiate(rule.insert, Solutions(rule.condition, st))
DeleteContent(rule, st) == Instantiate(rule.delete, Solutions(rule.condition, st))

\* The facts a reader of the server could see during the last operation:
\* those before it and those left by each of its requests
Observable == {last.pre} \cup {last.log[i].post : i \in DOMAIN last.log}

\* C1: a rule with an insert and a delete clause is applied atomically: every
\* fact set a reader can observe during apply_rule is the one before the rule
\* or the one after it, which is the facts before, less the deletes, plus the
\* inserts; no state with only the deletes or only the inserts is observable.
C1_RuleAtomic ==
    (IsRuleCall /\ HasInsert(last.arg) /\ HasDelete(last.arg) /\ last.err = "none") =>
        /\ Observable \subseteq {last.pre, store}
        /\ store = (last.pre \ DeleteContent(last.arg, last.pre))
                      \cup InsertContent(last.arg, last.pre)

\* A rule has deleted and inserted, and the facts with only its deletes or
\* only its inserts applied are neither those before nor those after it
C1_Witness ==
    /\ IsRuleCall /\ HasInsert(last.arg) /\ HasDelete(last.arg) /\ last.err = "none"
    /\ (last.pre \ DeleteContent(last.arg, last.pre)) \notin {last.pre, store}
    /\ (last.pre \cup InsertContent(last.arg, last.pre)) \notin {last.pre, store}

\* C4: a rule whose condition has no solution in the store leaves the store
\* as it was, whatever its insert and delete templates are.
C4_UnsatisfiableIsNoOp ==
    (IsRuleCall /\ Solutions(last.arg.condition, last.pre) = {}) => store = last.pre

\* A rule with a variable-free insert template met a non-empty store in which
\* its condition has no solution
C4_Witness ==
    /\ IsRuleCall /\ Solutions(last.arg.condition, last.pre) = {}
    /\ last.pre # {}
    /\ HasInsert(last.arg) /\ VarsOf(last.arg.insert) = {}
    /\ last.err = "none"

\* C5: a rule with an insert clause and no delete clause only adds facts: the
\* facts before the call are a subset of the facts after it.
C5_InsertOnlyAdds ==
    (IsRuleCall /\ HasInsert(last.arg) /\ ~HasDelete(last.arg)) => last.pre \subseteq store

\* An insert-only rule has added a fact
C5_Witness ==
    /\ IsRuleCall /\ HasInsert(last.arg) /\ ~HasDelete(last.arg)
    /\ store # last.pre

\* C6: a rule with a delete clause and no insert clause only removes facts: the
\* facts after the call are a subset of the facts before it, and a delete of a
\* fact that is absent is no error.
C6_DeleteOnlyRemoves ==
    (IsRuleCall /\ HasDelete(last.arg) /\ ~HasInsert(last.arg)) =>
        /\ store \subseteq last.pre
        /\ last.err = "none"

\* A delete-only rule has removed a fact and was also told to delete a fact
\* that was absent
C6_Witness ==
    /\ IsRuleCall /\ HasDelete(last.arg) /\ ~HasInsert(last.arg)
    /\ store # last.pre
    /\ ~(DeleteContent(last.arg, last.pre) \subseteq last.pre)

\* C7: the same insert-only rule applied twice in a row, its insert content
\* being the same both times, leaves after the second application the facts
\* the first application left.
C7_InsertOnlyIdempotent ==
    (/\ IsRuleCall /\ prev.op = "apply_rule"
     /\ HasInsert(last.arg) /\ ~HasDelete(last.arg)
     /\ prev.err = "none" /\ last.err = "none"
     /\ InsertContent(last.arg, prev.pre) = InsertContent(last.arg, last.pre)) =>
        store = last.pre

\* An insert-only rule added facts, then was applied again with the same
\* insert content
C7_Witness ==
    /\ IsRuleCall /\ prev.op = "apply_rule" /\ prev.arg = last.arg
    /\ HasInsert(last.arg) /\ ~HasDelete(last.arg)
    /\ prev.err = "none" /\ last.err = "none"
    /\ InsertContent(last.arg, prev.pre) = InsertContent(last.arg, last.pre)
    /\ InsertContent(last.arg, prev.pre) # {}
    /\ last.pre # prev.pre

(***************************************************************************)
(* Properties of apply_ruleset and load_sentence, checked under            *)
(* SpecRuleset.                                                            *)
(***************************************************************************)
IsRulesetCall == last.op = "apply_ruleset"

\* The places in the log of the requests sent for rules: an update with a
\* condition (the lexicon's updates have none)
RuleRequests ==
    {i \in DOMAIN last.log : last.log[i].call = "update" /\ last.log[i].where # <<>>}

\* The facts the server holds when the i-th request of the log arrives
FactsBefore(i) == IF i = 1 THEN last.pre ELSE last.log[i - 1].post

ClauseOf(rule, key) == IF key \in DOMAIN rule THEN rule[key] ELSE <<>>

\* C2: apply_ruleset applies the lexicon first and then the rules in list
\* order, each rule completing before the next starts: the requests for the
\* rules are the last of the call, the j-th of them is the j-th rule of the
\* list, and it is evaluated on the facts left by the lexicon and by the
\* rules before it.
C2_LexiconThenRulesInOrder ==
    IsRulesetCall =>
        LET rules == last.arg.ruleset.rules
            n == Len(last.log)
            k == Cardinality(RuleRequests)
        IN /\ RuleRequests = (n - k + 1)..n
           /\ k <= Len(rules)
           /\ last.err = "none" => k = Len(rules)
           /\ \A j \in 1..k :
                LET q == last.log[n - k + j]
                IN /\ q.where = rules[j].condition
                   /\ q.insert = ClauseOf(rules[j], "insert")
                   /\ q.delete = ClauseOf(rules[j], "delete")
                   /\ q.post = SOH_update(FactsBefore(n - k + j), rules[j].condition,
                                          ClauseOf(rules[j], "insert"),
                                          ClauseOf(rules[j], "delete")).store
           /\ store = last.log[n].post

\* A ruleset of a lexicon and two rules: the first rule matched only a fact the
\* lexicon inserted, the second only a fact the first rule inserted
C2_Witness ==
    /\ IsRulesetCall /\ last.err = "none"
    /\ Len(last.arg.ruleset.rules) = 2
    /\ Len(last.log) >= 4
    /\ LET n == Len(last.log)
           rules == last.arg.ruleset.rules
       IN /\ Solutions(rules[1].condition, last.pre) = {}
          /\ Solutions(rules[2].condition, FactsBefore(n - 1)) = {}
          /\ last.log[n - 1].post # FactsBefore(n - 1)
          /\ last.log[n].post # FactsBefore(n)

\* C3: load_sentence(T) replaces the store: whatever it held, it then holds
\* exactly the facts of T.
C3_LoadReplaces ==
    last.op = "load_sentence" => store = Range(last.arg)

\* A sentence was loaded over facts of another sentence that a ruleset had
\* extended
C3_Witness ==
    /\ last.op = "load_sentence"
    /\ last.arg # <<>>
    /\ \E f \in last.pre : f \notin Range(last.arg)
    /\ \E f \in last.pre : f[2] = NS_BASE(S_lexclass)

(***************************************************************************)
(* Properties of apply_lexicon, checked under SpecLexicon.                 *)
(***************************************************************************)
IsLexiconCall == last.op = "apply_lexicon"

RECURSIVE Concat(_)
Concat(ss) == IF ss = <<>> THEN <<>> ELSE Head(ss) \o Concat(Tail(ss))

\* The lemmas of an entry: its list, or its one string
LemmasOf(lex) == IF lex.lemma.list THEN lex.lemma.items ELSE <<lex.lemma.items[1]>>

\* The lemmas of the entry that match the token's lemma
MatchingLemmas(lex, token) ==
    {i \in DOMAIN LemmasOf(lex) : LexiconMatches(LemmasOf(lex)[i], token[S_lemma])}

\* The entry's pos, when present, is the token's, and its lemma matches
EntryMatches(lex, token) ==
    /\ "pos" \in DOMAIN lex => lex.pos = token[S_pos]
    /\ MatchingLemmas(lex, token) # {}

\* The lexclass facts the updates for one token and one entry insert: none when
\* the entry does not match, else one (or one for each matching lemma)
EntryFacts(uri, token, lex, perLemma) ==
    IF ~EntryMatches(lex, token) THEN <<>>
    ELSE [i \in 1..(IF perLemma THEN Cardinality(MatchingLemmas(lex, token)) ELSE 1) |->
            <<uri, NS_BASE(S_lexclass), Literal(lex.lexclass)>>]

\* The facts the updates of the last call should insert, in order: token by
\* token as the tokens were iterated, and for each token in lexicon order
ExpectedFacts(perLemma) ==
    LET tokens == get_tokens(last.arg.triples)
        keys == last.arg.keys
        lexicon == last.arg.lexicon
    IN Concat([t \in DOMAIN keys |->
                 Concat([e \in DOMAIN lexicon |->
                           EntryFacts(keys[t], tokens[keys[t]], lexicon[e], perLemma)])])

\* The requests after the read of the tokens are updates that insert, one by
\* one, the facts of expected, and the store ends with those facts added
UpdatesInsert(expected) ==
    /\ Len(last.log) = 1 + Len(expected)
    /\ \A i \in DOMAIN expected :
         LET q == last.log[i + 1]
         IN /\ q.call = "update" /\ q.ok
            /\ q.where = <<>> /\ q.delete = <<>>
            /\ Instantiate(q.insert, {<<>>}) = {expected[i]}
    /\ store = last.pre \cup Range(expected)

MatchesIgnoringCase(target, lemma) ==
    \/ Lower(target) = Lower(lemma)
    \/ /\ EndsWith(target, <<"*">>)
       /\ StartsWith(Lower(lemma), Lower(DropLast(target)))

\* C9: the lemma of a lexicon entry matches the lemma of a token exactly when
\* the two are equal ignoring case, or the entry ends in * and the token's
\* lemma starts with the entry's prefix ignoring case, whichever of the two
\* holds upper-case characters.
C9_MatchIgnoresCase ==
    last.op = "match" =>
        (last.matched <=> MatchesIgnoringCase(last.arg.target, last.arg.lemma))

(***************************************************************************)
(* Properties of get_triples, checked under SpecView.                      *)
(***************************************************************************)
IsViewCall == last.op = "get_triples"

\* The predicate as the view names it: the base URI taken off
LocalName(p) == IF p # <<>> /\ Head(p) = BASE THEN Tail(p) ELSE p

\* The predicates filter_predicate lists; a string counts as a list of one
Listed(filter_predicate) ==
    IF filter_predicate.kind = "str" THEN {filter_predicate.items[1]}
    ELSE Range(filter_predicate.items)

\* The fact is a relation that none of the four exclusions drops
BecomesEdge(tr, a) ==
    /\ ~tr[3].lit
    /\ ~(a.ignore_rel /\ LocalName(tr[2]) = S_rel)
    /\ ~(a.ignore_grammatical /\ Len(LocalName(tr[2])) >= 4
           /\ SubSeq(LocalName(tr[2]), 1, 4) = <<"r", "e", "l", "_">>)
    /\ ~(Listed(a.filter_predicate) # {} /\ LocalName(tr[2]) \notin Listed(a.filter_predicate))
    /\ tr[2] # RDF_TYPE

\* The places, in the order the server returned the facts, of those that
\* become edges
RECURSIVE EdgePlaces(_, _)
EdgePlaces(i, a) ==
    IF i > Len(a.triples) THEN <<>>
    ELSE (IF BecomesEdge(a.triples[i], a) THEN <<i>> ELSE <<>>) \o EdgePlaces(i + 1, a)

\* C10: get_triples returns as edges exactly the facts that are relations and
\* are not excluded, in the order of the store's iteration: rel is excluded
\* when ignore_rel is set, rel_ predicates when ignore_grammatical is set,
\* predicates not listed when filter_predicate is not empty (a string being a
\* list of one), rdf:type always, and a literal fact is never an edge.
C10_EdgesAreKeptRelations ==
    (IsViewCall /\ ~last.arg.minimal) =>
        LET places == EdgePlaces(1, last.arg)
        IN /\ Len(last.edges) = Len(places)
           /\ \A k \in DOMAIN places :
                LET tr == last.arg.triples[places[k]]
                IN /\ last.edges[k].subject = last.nodes[tr[1]]
                   /\ last.edges[k].predicate = LocalName(tr[2])
                   /\ last.edges[k].object = last.nodes[tr[3].v]

\* A view taken with ignore_rel set of a store that holds a rel relation, an
\* rdf:type relation and another relation: only the last is an edge
C10_Witness ==
    /\ IsViewCall /\ ~last.arg.minimal
    /\ last.arg.ignore_rel
    /\ V_rel \in store /\ V_type \in store
    /\ Len(last.edges) = 1

(***************************************************************************)
(* Failure of an update, checked under Spec.                               *)
(***************************************************************************)
\* C11: a failed update does not partially commit: when the update apply_rule
\* sends is refused (a template with an unbound variable, a name that cannot
\* be expanded), the caller gets the error and the store holds the facts it
\* held before the call.
C11_FailedUpdateCommitsNothing ==
    IsRuleCall =>
        /\ (\E i \in DOMAIN last.log : ~last.log[i].ok) <=> last.err # "none"
        /\ last.err # "none" => store = last.pre

\* The update of a rule whose condition has a solution and whose delete
\* template names facts of the store was refused
C11_Witness ==
    /\ IsRuleCall /\ last.err # "none"
    /\ HasDelete(last.arg)
    /\ DeleteContent(last.arg, last.pre) \cap last.pre # {}

(***************************************************************************)
(* Errors of apply_lexicon, checked under SpecLexicon.                     *)
(***************************************************************************)
\* The subjects of the facts st that have a literal attribute but no pos or
\* no lemma attribute
Incomplete(st) ==
    {f[1] : f \in {g \in st : IsLiteral(g[3])
                     /\ \/ ~\E h \in st : h[1] = g[1] /\ h[2] = NS_BASE(S_pos) /\ IsLiteral(h[3])
                        \/ ~\E h \in st : h[1] = g[1] /\ h[2] = NS_BASE(S_lemma) /\ IsLiteral(h[3])}}

\* C12: when the store holds a subject with a literal attribute but without
\* pos or without lemma, apply_lexicon raises an error, whatever the lexicon
\* is (empty, or with no entry that could match).
C12_MissingAttributeRaises ==
    (IsLexiconCall /\ Incomplete(last.pre) # {}) => last.err = "KeyError"

\* An empty lexicon was applied to a store with a complete token, iterated
\* first, and a token without pos
C12_Witness ==
    /\ IsLexiconCall /\ last.err = "KeyError"
    /\ last.arg.lexicon = <<>>
    /\ Len(last.arg.keys) = 2
    /\ last.arg.keys[1] \notin Incomplete(last.pre)
    /\ last.arg.keys[2] \in Incomplete(last.pre)

\* C15: apply_lexicon does not partially commit on error: when it fails on a
\* token (one without pos or lemma) or on an update, the store holds the
\* facts it held before the call, and no lexclass inserted for a token that
\* was processed earlier in the call remains.
C15_LexiconCommitsNothingOnError ==
    (IsLexiconCall /\ last.err # "none") => store = last.pre

(***************************************************************************)
(* Failure of a rule inside apply_ruleset, checked under SpecRuleset.      *)
(***************************************************************************)
\* C13: a rule that fails inside apply_ruleset is fatal for that rule only:
\* the error is reported to the caller, the effects of the lexicon and of the
\* rules before it are kept, and the rules after it are not abandoned: every
\* rule of the list gets its request.
C13_FailedRuleIsNotFatal ==
    (IsRulesetCall /\ \E i \in RuleRequests : ~last.log[i].ok) =>
        /\ last.err # "none"
        /\ store = last.log[Len(last.log)].post
        /\ Cardinality(RuleRequests) = Len(last.arg.ruleset.rules)

(***************************************************************************)
(* The nodes of the view, checked under SpecView.                          *)
(***************************************************************************)
\* The "; "-join of the literal values the facts hold for subject s and
\* predicate p, in the order of the facts
RECURSIVE JoinOf(_, _, _)
JoinOf(s, p, triples) ==
    IF triples = <<>> THEN <<>>
    ELSE LET tr == triples[Len(triples)]
             before == JoinOf(s, p, SubSeq(triples, 1, Len(triples) - 1))
         IN IF tr[1] = s /\ tr[2] = p /\ IsLiteral(tr[3])
            THEN (IF before = <<>> THEN tr[3].v ELSE before \o <<";", " ">> \o tr[3].v)
            ELSE before

\* The literal facts among those the server returned
LiteralFacts(triples) == {f \in Range(triples) : IsLiteral(f[3])}

\* C14: for every node and every literal predicate, the node's attribute is
\* the "; "-join, in the order of the store's iteration, of all the literal
\* values the store holds for that subject and predicate; and every endpoint
\* of an edge carries all of its literal attributes, whether its literal
\* facts come before or after the relation that made the edge.
C14_LiteralsJoined ==
    (IsViewCall /\ ~last.arg.minimal) =>
        /\ \A f \in LiteralFacts(last.arg.triples) :
             /\ f[1] \in DOMAIN last.nodes
             /\ LocalName(f[2]) \in DOMAIN last.nodes[f[1]]
             /\ last.nodes[f[1]][LocalName(f[2])] = JoinOf(f[1], f[2], last.arg.triples)
        /\ \A k \in DOMAIN last.edges :
             \A f \in LiteralFacts(last.arg.triples) :
                /\ f[1] = last.edges[k].subject[S_uri] =>
                     last.edges[k].subject[LocalName(f[2])]
                         = JoinOf(f[1], f[2], last.arg.triples)
                /\ f[1] = last.edges[k].object[S_uri] =>
                     last.edges[k].object[LocalName(f[2])]
                         = JoinOf(f[1], f[2], last.arg.triples)

\* C16: the view holds a node for every NodeId that a fact of the store names
\* as subject or as object, for every setting of ignore_rel,
\* ignore_grammatical and filter_predicate, also when the NodeId is only the
\* object of a relation that is excluded.
C16_NodeForEveryNodeId ==
    IsViewCall =>
        \A f \in Range(last.arg.triples) :
            /\ f[1] \in DOMAIN last.nodes
            /\ ~IsLiteral(f[3]) => f[3].v \in DOMAIN last.nodes

\* C17: with minimal set, get_triples returns for every store one record
\* {subject: id, predicate, object: id} for each edge of the result without
\* minimal, in the same order and with the same predicates, each id being the
\* short id of the endpoint; this for every endpoint, also a node for which
\* the store holds no literal id fact.
C17_MinimalProjectsEveryEdge ==
    (IsViewCall /\ last.arg.minimal) =>
        LET places == EdgePlaces(1, last.arg)
        IN /\ last.err = "none"
           /\ Len(last.edges) = Len(places)
           /\ \A k \in DOMAIN places :
                LET tr == last.arg.triples[places[k]]
                IN /\ last.edges[k].predicate = LocalName(tr[2])
                   /\ S_id \in DOMAIN last.nodes[tr[1]] =>
                        last.edges[k].subject = last.nodes[tr[1]][S_id]
                   /\ S_id \in DOMAIN last.nodes[tr[3].v] =>
                        last.edges[k].object = last.nodes[tr[3].v][S_id]

\* C20: get_triples preserves the identity of nodes: every node of the view
\* has a uri equal to the NodeId it was created for, the edges that name a
\* NodeId share its one node, and no literal fact of the store, whatever its
\* predicate (uri for one), changes a node's uri.
C20_NodeIdentityPreserved ==
    IsViewCall =>
        /\ \A n \in DOMAIN last.nodes : last.nodes[n][S_uri] = n
        /\ ~last.arg.minimal =>
             \A k \in DOMAIN last.edges :
                LET tr == last.arg.triples[EdgePlaces(1, last.arg)[k]]
                IN /\ last.edges[k].subject = last.nodes[tr[1]]
                   /\ last.edges[k].object = last.nodes[tr[3].v]

(***************************************************************************)
(* Properties of _saf_to_rdf and load_saf, checked under SpecSaf.          *)
(***************************************************************************)
IsSafCall == last.op = "load_saf"

\* The token of the article is in the sentence
InSentence(token) == IntOf(TokenGet(token, S_sentence)) = last.arg.sentence_id

\* The places of the tokens of the sentence that have the id
TokensWithId(id) ==
    {i \in DOMAIN last.arg.saf_article.tokens :
        /\ InSentence(last.arg.saf_article.tokens[i])
        /\ IntOf(TokenGet(last.arg.saf_article.tokens[i], S_id)) = IntOf(id)}

\* One literal fact for each attribute of each token of the sentence
ExpectedLiterals ==
    LET toks == last.arg.saf_article.tokens
    IN Concat([i \in DOMAIN toks |->
                 IF InSentence(toks[i]) THEN TokenFacts(token_uri(toks[i]), toks[i])
                 ELSE <<>>])

\* The places of the tokens of the article, of whatever sentence, with the id
ArticleTokensWithId(id) ==
    {i \in DOMAIN last.arg.saf_article.tokens :
        IntOf(TokenGet(last.arg.saf_article.tokens[i], S_id)) = IntOf(id)}

\* Two relations for each dependency whose child is in the sentence.  One
\* whose parent is not in the sentence yields its two relations when
\* outside is set and the article has the parent, and is skipped otherwise
ExpectedRelations(outside) ==
    LET toks == last.arg.saf_article.tokens
        deps == last.arg.saf_article.dependencies
        parents(id) == IF outside THEN ArticleTokensWithId(id) ELSE TokensWithId(id)
        child(j) == token_uri(toks[CHOOSE i \in TokensWithId(deps[j].child) : TRUE])
        parent(j) == token_uri(toks[CHOOSE i \in parents(deps[j].parent) : TRUE])
    IN Concat([j \in DOMAIN deps |->
                 IF TokensWithId(deps[j].child) = {} \/ parents(deps[j].parent) = {}
                 THEN <<>>
                 ELSE << <<child(j), rel_uri(deps[j]), URIRef(parent(j))>>,
                         <<child(j), NS_BASE(S_rel), URIRef(parent(j))>> >>])

\* C18: _saf_to_rdf yields for the sentence one literal fact for each
\* attribute of each of its tokens and two relations (rel_<relation> and rel,
\* from the child to the parent) for each dependency whose child is in the
\* sentence, and nothing for other tokens and dependencies; a dependency
\* whose child is in the sentence and whose parent is not yields its
\* relations too or is skipped, and does not make the conversion fail.
C18_SafFactsOfTheSentence ==
    IsSafCall =>
        /\ last.err = "none"
        /\ \E outside \in BOOLEAN :
             last.yielded = ExpectedLiterals \o ExpectedRelations(outside)

\* C19: a load that fails while its triples are produced leaves the store
\* untouched: no request reaches the server, and the sentence loaded before
\* is still in the store, neither cleared nor partly replaced.
C19_FailedLoadLeavesStore ==
    (IsSafCall /\ last.err # "none") =>
        /\ store = last.pre
        /\ last.log = <<>>

\* A conversion failed after it had yielded triples, over a store that held
\* another sentence
C19_Witness ==
    /\ IsSafCall /\ last.err # "none"
    /\ last.yielded # <<>>
    /\ last.pre # {}
    /\ ~(Range(last.yielded) \subseteq last.pre)

====
